---- MODULE Spec2Model ----
(***************************************************************************)
(* Model of vcd/resource_vcd_nsxv_dnat.go: the translation between the     *)
(* attribute set of the vcd_nsxv_dnat resource (schema.ResourceData) and   *)
(* the NAT rule object of the edge gateway API (types.EdgeNatRule).        *)
(*                                                                         *)
(*   getDnatRule      attribute set -> rule   (create / update)            *)
(*   setDnatRuleData  rule -> attribute set   (create / read / update)     *)
(*                                                                         *)
(* Strings that the code only copies are TLA+ strings.  The rule tag is    *)
(* converted by strconv.Itoa and strconv.Atoi, so it is a sequence of      *)
(* one-character strings and both conversions are computed digit by digit. *)
(***************************************************************************)
EXTENDS Integers, Sequences, FiniteSets, TLC

VARIABLES edgeGateway, cfg, d, natRule, err, pc, dBefore, fromGet, setFailed

vars == <<edgeGateway, cfg, d, natRule, err, pc, dBefore, fromGet, setFailed>>

----------------------------------------------------------------------------
(* Bounds of the model *)

\* vNic indexes of the edge gateway are 0..MaxVnic
MaxVnic == 1
\* rule tags returned by the remote API are strings of at most MaxTagLen characters
MaxTagLen == 2
\* configured rule tags range over -MaxTag..MaxTag, plus 42 and 65535
MaxTag == 2

----------------------------------------------------------------------------
(* Values *)

NoError == [kind |-> "nil"]
NotFoundError(what) == [kind |-> "NotFoundError", what |-> what]
FormatError(tag) == [kind |-> "FormatError", ruletag |-> tag]
NilRule == [nil |-> TRUE]

NetworkNames == {"ext-net", "org-net", "ghost"}
NetworkTypes == {"ext", "org"}

\* the networks an edge gateway of the model may have attached
Attachable == {[name |-> "ext-net", type |-> "ext"], [name |-> "org-net", type |-> "org"]}
Unbound == [name |-> "", type |-> ""]

VnicIndexes == 0 .. MaxVnic

\* an edge gateway: each vNic is unbound or attached to one network, and no
\* network is attached to two vNics
Gateways ==
    {g \in [VnicIndexes -> Attachable \cup {Unbound}] :
        \A i, j \in VnicIndexes : (i # j /\ g[i] # Unbound) => g[i] # g[j]}

\* rule_tag of the attribute set: TypeInt, Optional
UnsetTag == [set |-> FALSE, value |-> 0]
IntTag(n) == [set |-> TRUE, value |-> n]
TagInts == (-MaxTag .. MaxTag) \cup {42, 65535}
TagAttrs == {UnsetTag} \cup {IntTag(n) : n \in TagInts}

----------------------------------------------------------------------------
(* strconv.Itoa and strconv.Atoi on sequences of characters *)

DigitChars == <<"0", "1", "2", "3", "4", "5", "6", "7", "8", "9">>
IsDigit(c) == \E k \in 1 .. Len(DigitChars) : DigitChars[k] = c
DigitValue(c) == (CHOOSE k \in 1 .. Len(DigitChars) : DigitChars[k] = c) - 1

RECURSIVE FormatDigits(_)
FormatDigits(n) ==
    IF n < 10 THEN <<DigitChars[n + 1]>>
    ELSE FormatDigits(n \div 10) \o <<DigitChars[(n % 10) + 1]>>

\* strconv.Itoa: decimal digits, with a leading "-" for a negative number
Itoa(n) == IF n < 0 THEN <<"-">> \o FormatDigits(-n) ELSE FormatDigits(n)

\* the digits that remain once strconv.Atoi has taken an optional sign
AtoiDigits(s) == IF s # <<>> /\ s[1] \in {"+", "-"} THEN Tail(s) ELSE s

\* strconv.Atoi returns no error: an optional sign and then at least one
\* character, every one a decimal digit.  (Strings of the lengths modelled
\* stay far below the range of int, so no range error arises.)
AtoiOk(s) ==
    /\ AtoiDigits(s) # <<>>
    /\ \A k \in 1 .. Len(AtoiDigits(s)) : IsDigit(AtoiDigits(s)[k])

RECURSIVE ParseDigits(_, _)
ParseDigits(s, acc) ==
    IF s = <<>> THEN acc ELSE ParseDigits(Tail(s), acc * 10 + DigitValue(Head(s)))

\* the value strconv.Atoi returns where AtoiOk
Atoi(s) ==
    IF s[1] = "-" THEN -ParseDigits(AtoiDigits(s), 0) ELSE ParseDigits(AtoiDigits(s), 0)

----------------------------------------------------------------------------
(* The attribute set (schema.ResourceData) and the rule (types.EdgeNatRule) *)

\* the scalar attributes a configuration may carry, with the rule_type a
\* previous read left in the state
ConfigScalars ==
    { [rule_type |-> "", enabled |-> TRUE, logging_enabled |-> FALSE,
       description |-> "", original_address |-> "192.0.2.10", protocol |-> "tcp",
       icmp_type |-> "", original_port |-> "80",
       translated_address |-> "10.0.0.5", translated_port |-> "8080"],
      [rule_type |-> "user", enabled |-> FALSE, logging_enabled |-> TRUE,
       description |-> "ping", original_address |-> "192.0.2.20", protocol |-> "icmp",
       icmp_type |-> "echo-request", original_port |-> "any",
       translated_address |-> "10.0.0.6", translated_port |-> "any"] }

Config(name, type, tag, s) ==
    [network_name |-> name, network_type |-> type, rule_tag |-> tag,
     rule_type |-> s.rule_type, enabled |-> s.enabled,
     logging_enabled |-> s.logging_enabled, description |-> s.description,
     original_address |-> s.original_address, protocol |-> s.protocol,
     icmp_type |-> s.icmp_type, original_port |-> s.original_port,
     translated_address |-> s.translated_address, translated_port |-> s.translated_port]

Configs ==
    {Config(n, t, g, s) : n \in NetworkNames, t \in NetworkTypes,
                          g \in TagAttrs, s \in ConfigScalars}

\* a ResourceData in which nothing is set: every d.Get returns the zero value
EmptyData ==
    [network_name |-> "", network_type |-> "", rule_tag |-> UnsetTag,
     rule_type |-> "", enabled |-> FALSE, logging_enabled |-> FALSE,
     description |-> "", original_address |-> "", protocol |-> "",
     icmp_type |-> "", original_port |-> "", translated_address |-> "",
     translated_port |-> ""]

Attributes == DOMAIN EmptyData

TagChars == {"0", "7", "-", "a"}

RECURSIVE StringsUpTo(_)
StringsUpTo(n) ==
    IF n = 0 THEN {<<>>}
    ELSE StringsUpTo(n - 1) \cup
         {Append(s, c) : s \in {t \in StringsUpTo(n - 1) : Len(t) = n - 1}, c \in TagChars}

\* the ruleTag strings the remote API may return
RemoteTags == StringsUpTo(MaxTagLen) \cup {<<"+", "7">>} \cup {Itoa(n) : n \in TagInts}

\* the scalar fields a rule read from the remote API may carry
RuleScalars ==
    { [RuleType |-> "user", Enabled |-> TRUE, LoggingEnabled |-> FALSE,
       Description |-> "", OriginalAddress |-> "192.0.2.10", Protocol |-> "tcp",
       IcmpType |-> "", OriginalPort |-> "80",
       TranslatedAddress |-> "10.0.0.5", TranslatedPort |-> "8080"],
      [RuleType |-> "internal_high", Enabled |-> FALSE, LoggingEnabled |-> TRUE,
       Description |-> "remote", OriginalAddress |-> "198.51.100.1", Protocol |-> "udp",
       IcmpType |-> "any", OriginalPort |-> "53",
       TranslatedAddress |-> "10.1.1.1", TranslatedPort |-> "5353"] }

EdgeNatRule(vnic, tag, s) ==
    [Vnic |-> vnic, RuleTag |-> tag, RuleType |-> s.RuleType, Enabled |-> s.Enabled,
     LoggingEnabled |-> s.LoggingEnabled, Description |-> s.Description,
     OriginalAddress |-> s.OriginalAddress, Protocol |-> s.Protocol,
     IcmpType |-> s.IcmpType, OriginalPort |-> s.OriginalPort,
     TranslatedAddress |-> s.TranslatedAddress, TranslatedPort |-> s.TranslatedPort]

\* the rules the remote API may return; every one carries a vNic index
RemoteRules ==
    {EdgeNatRule(v, g, s) : v \in VnicIndexes, g \in RemoteTags, s \in RuleScalars}

\* d.GetOk("rule_tag"): ok is false when the attribute is unset and also when
\* it holds the zero value of its type
GetOk(dd) == [value |-> dd.rule_tag.value, ok |-> dd.rule_tag.set /\ dd.rule_tag.value # 0]

\* d.Set(key, value); failing holds the keys whose assignment returns an error,
\* which leaves the attribute as it was
Set(dd, key, value, failing) ==
    IF key \in failing THEN dd ELSE [dd EXCEPT ![key] = value]

----------------------------------------------------------------------------
(* The network interface lookups of the edge gateway *)

\* index of the vNic attached to (networkName, networkType), or an error
getvNicIndexFromNetworkNameType(networkName, networkType, gw) ==
    LET net == [name |-> networkName, type |-> networkType]
    IN  IF \E i \in DOMAIN gw : gw[i] = net
        THEN [index |-> CHOOSE i \in DOMAIN gw : gw[i] = net, err |-> NoError]
        ELSE [index |-> -1, err |-> NotFoundError("network")]

\* (networkName, networkType) attached to the vNic, or an error
getNetworkNameTypeFromVnicIndex(index, gw) ==
    IF index \in DOMAIN gw /\ gw[index] # Unbound
    THEN [name |-> gw[index].name, type |-> gw[index].type, err |-> NoError]
    ELSE [name |-> "", type |-> "", err |-> NotFoundError("vnic")]

----------------------------------------------------------------------------
(* getDnatRule *)

\* the rule with OriginalPort and TranslatedPort exchanged
newEdgeNatRule_portsSwapped(dd, vnicIndex) ==
    [Vnic |-> vnicIndex, RuleTag |-> <<>>, RuleType |-> "",
     Enabled |-> dd.enabled, LoggingEnabled |-> dd.logging_enabled,
     Description |-> dd.description, OriginalAddress |-> dd.original_address,
     Protocol |-> dd.protocol, IcmpType |-> dd.icmp_type,
     OriginalPort |-> dd.translated_port,
     TranslatedAddress |-> dd.translated_address,
     TranslatedPort |-> dd.original_port]

\* the EdgeNatRule literal: RuleTag and RuleType keep their zero value
newEdgeNatRule(dd, vnicIndex) ==
    [Vnic |-> vnicIndex, RuleTag |-> <<>>, RuleType |-> "",
     Enabled |-> dd.enabled, LoggingEnabled |-> dd.logging_enabled,
     Description |-> dd.description, OriginalAddress |-> dd.original_address,
     Protocol |-> dd.protocol, IcmpType |-> dd.icmp_type,
     OriginalPort |-> dd.original_port,
     TranslatedAddress |-> dd.translated_address,
     TranslatedPort |-> dd.translated_port]

\* if ruleTag, ok := d.GetOk("rule_tag"); ok { natRule.RuleTag = strconv.Itoa(ruleTag) }
withRuleTag(rule, dd) ==
    IF GetOk(dd).ok THEN [rule EXCEPT !.RuleTag = Itoa(GetOk(dd).value)] ELSE rule

\* getDnatRule that hands back the rule built so far together with the error
getDnatRule_partialRule(dd, gw) ==
    LET res == getvNicIndexFromNetworkNameType(dd.network_name, dd.network_type, gw)
    IN  [rule |-> withRuleTag(newEdgeNatRule(dd, res.index), dd), err |-> res.err]

getDnatRule(dd, gw) ==
    LET res == getvNicIndexFromNetworkNameType(dd.network_name, dd.network_type, gw)
    IN  IF res.err # NoError
        THEN [rule |-> NilRule, err |-> res.err]
        ELSE [rule |-> withRuleTag(newEdgeNatRule(dd, res.index), dd), err |-> NoError]

----------------------------------------------------------------------------
(* setDnatRuleData *)

\* the rule_tag assignment: made only when the rule has a tag
setRuleTag(dd, rule, failing) ==
    IF rule.RuleTag # <<>>
    THEN Set(dd, "rule_tag", IntTag(Atoi(rule.RuleTag)), failing)
    ELSE dd

\* network_type and network_name exchanged
setNetwork_swapped(dd, res, failing) ==
    Set(Set(dd, "network_type", res.name, failing), "network_name", res.type, failing)

setNetwork(dd, res, failing) ==
    Set(Set(dd, "network_type", res.type, failing), "network_name", res.name, failing)

\* the scalar assignments without the one of rule_type
setScalars_noRuleType(dd, rule, failing) ==
    LET d1 == Set(dd, "enabled", rule.Enabled, failing)
        d2 == Set(d1, "logging_enabled", rule.LoggingEnabled, failing)
        d3 == Set(d2, "description", rule.Description, failing)
        d4 == Set(d3, "original_address", rule.OriginalAddress, failing)
        d5 == Set(d4, "protocol", rule.Protocol, failing)
        d6 == Set(d5, "icmp_type", rule.IcmpType, failing)
        d7 == Set(d6, "original_port", rule.OriginalPort, failing)
        d8 == Set(d7, "translated_address", rule.TranslatedAddress, failing)
    IN  Set(d8, "translated_port", rule.TranslatedPort, failing)

setScalars(dd, rule, failing) ==
    LET d1 == Set(dd, "enabled", rule.Enabled, failing)
        d2 == Set(d1, "logging_enabled", rule.LoggingEnabled, failing)
        d3 == Set(d2, "description", rule.Description, failing)
        d4 == Set(d3, "original_address", rule.OriginalAddress, failing)
        d5 == Set(d4, "protocol", rule.Protocol, failing)
        d6 == Set(d5, "icmp_type", rule.IcmpType, failing)
        d7 == Set(d6, "original_port", rule.OriginalPort, failing)
        d8 == Set(d7, "translated_address", rule.TranslatedAddress, failing)
        d9 == Set(d8, "translated_port", rule.TranslatedPort, failing)
    IN  Set(d9, "rule_type", rule.RuleType, failing)

\* setDnatRuleData that parses the tag before it resolves the vNic index
setDnatRuleData_parseFirst(dd, rule, gw, failing) ==
    LET res == getNetworkNameTypeFromVnicIndex(rule.Vnic, gw)
    IN  IF rule.RuleTag # <<>> /\ ~AtoiOk(rule.RuleTag)
        THEN [d |-> dd, err |-> FormatError(rule.RuleTag)]
        ELSE IF res.err # NoError
        THEN [d |-> dd, err |-> res.err]
        ELSE [d |-> setScalars(setNetwork(setRuleTag(dd, rule, failing), res, failing),
                               rule, failing),
              err |-> NoError]

\* setDnatRuleData that assigns the network attributes before it parses the tag
setDnatRuleData_networkFirst(dd, rule, gw, failing) ==
    LET res == getNetworkNameTypeFromVnicIndex(rule.Vnic, gw)
    IN  IF res.err # NoError
        THEN [d |-> dd, err |-> res.err]
        ELSE IF rule.RuleTag # <<>> /\ ~AtoiOk(rule.RuleTag)
        THEN [d |-> setNetwork(dd, res, failing), err |-> FormatError(rule.RuleTag)]
        ELSE [d |-> setScalars(setRuleTag(setNetwork(dd, res, failing), rule, failing),
                               rule, failing),
              err |-> NoError]

\* the errors of the d.Set calls are discarded: the function returns nil
\* whether or not an assignment failed
setDnatRuleData(dd, rule, gw, failing) ==
    LET res == getNetworkNameTypeFromVnicIndex(rule.Vnic, gw)
    IN  IF res.err # NoError
        THEN [d |-> dd, err |-> res.err]
        ELSE IF rule.RuleTag # <<>> /\ ~AtoiOk(rule.RuleTag)
        THEN [d |-> dd, err |-> FormatError(rule.RuleTag)]
        ELSE [d |-> setScalars(setNetwork(setRuleTag(dd, rule, failing), res, failing),
                               rule, failing),
              err |-> NoError]

----------------------------------------------------------------------------
(* The calls *)

Init ==
    /\ edgeGateway \in Gateways
    /\ d \in Configs
    /\ cfg = d
    /\ natRule = NilRule
    /\ err = NoError
    /\ pc = "config"
    /\ dBefore = d
    /\ fromGet = FALSE
    /\ setFailed = {}

\* natRuleCreate / natRuleUpdate: the rule is built from the configuration
GetDnatRule ==
    /\ pc = "config"
    /\ LET ret == getDnatRule(d, edgeGateway)
       IN  /\ natRule' = ret.rule
           /\ err' = ret.err
    /\ cfg' = d
    /\ fromGet' = TRUE
    /\ pc' = "got"
    /\ UNCHANGED <<edgeGateway, d, dBefore, setFailed>>

\* the caller picks the attribute set the rule is to be written into
TargetState ==
    /\ pc = "got"
    /\ err = NoError
    /\ d' \in Configs \cup {EmptyData}
    /\ pc' = "target"
    /\ UNCHANGED <<edgeGateway, cfg, natRule, err, dBefore, fromGet, setFailed>>

\* natRuleRead: the rule comes from the remote API
RemoteRead ==
    /\ pc = "config"
    /\ natRule' \in RemoteRules
    /\ fromGet' = FALSE
    /\ pc' = "read"
    /\ UNCHANGED <<edgeGateway, cfg, d, err, dBefore, setFailed>>

SetCall(failing) ==
    /\ pc \in {"got", "target", "read"}
    /\ natRule # NilRule
    /\ LET ret == setDnatRuleData(d, natRule, edgeGateway, failing)
       IN  /\ d' = ret.d
           /\ err' = ret.err
    /\ dBefore' = d
    /\ setFailed' = failing
    /\ pc' = "done"
    /\ UNCHANGED <<edgeGateway, cfg, natRule, fromGet>>

\* Every key setDnatRuleData assigns is in the schema of the resource and
\* every value has the type the schema declares, so no d.Set returns an error.
SetDnatRuleData == SetCall({})

\* One d.Set returns an error.
SetDnatRuleDataSetError == \E a \in Attributes : SetCall({a})

Next == GetDnatRule \/ TargetState \/ RemoteRead \/ SetDnatRuleData

Spec == Init /\ [][Next]_vars

NextSetError == GetDnatRule \/ TargetState \/ RemoteRead \/ SetDnatRuleDataSetError

SpecSetError == Init /\ [][NextSetError]_vars

----------------------------------------------------------------------------
(* Properties *)

\* what the lookups return for the configuration given to getDnatRule and
\* for the rule given to setDnatRuleData
CfgIndex == getvNicIndexFromNetworkNameType(cfg.network_name, cfg.network_type, edgeGateway)
RuleNetwork == getNetworkNameTypeFromVnicIndex(natRule.Vnic, edgeGateway)

\* getDnatRule has returned a rule and setDnatRuleData has been applied to it
RoundTripDone == pc = "done" /\ fromGet

\* setDnatRuleData has returned
SetDone == pc = "done"

Malformed(tag) == tag # <<>> /\ ~AtoiOk(tag)

\* C1: a rule_tag of 0, 1, 42 or 65535, taken through getDnatRule and then
\* setDnatRuleData into an attribute set without a rule tag, comes back as the
\* same value.
C1_TagRoundTrip ==
    (/\ RoundTripDone
     /\ cfg.rule_tag.set
     /\ cfg.rule_tag.value \in {0, 1, 42, 65535}
     /\ CfgIndex.err = NoError
     /\ ~dBefore.rule_tag.set)
    => (err = NoError /\ d.rule_tag = cfg.rule_tag)

\* C2: for a network the gateway resolves to an index that resolves back to
\* the same network, getDnatRule followed by setDnatRuleData returns no error
\* and writes the configuration's network_name and network_type, with
\* rule_tag set or unset.
C2_NetworkRoundTrip ==
    (/\ RoundTripDone
     /\ CfgIndex.err = NoError
     /\ getNetworkNameTypeFromVnicIndex(CfgIndex.index, edgeGateway) =
            [name |-> cfg.network_name, type |-> cfg.network_type, err |-> NoError])
    => (/\ err = NoError
        /\ d.network_name = cfg.network_name
        /\ d.network_type = cfg.network_type)

\* a round trip with a tag, written into an attribute set that named another network
C2_Witness ==
    /\ RoundTripDone
    /\ err = NoError
    /\ cfg.rule_tag.set /\ cfg.rule_tag.value = 42
    /\ dBefore.network_name # cfg.network_name
    /\ dBefore.network_type # cfg.network_type
    /\ d.network_name = cfg.network_name

\* C3: setDnatRuleData with a rule whose RuleTag is empty leaves rule_tag
\* unset, whatever rule_tag held before the call.
C3_TagOmissionOnRead ==
    (SetDone /\ err = NoError /\ natRule.RuleTag = <<>>) => ~d.rule_tag.set

\* C4: setDnatRuleData with a rule whose RuleTag is not empty and is no
\* integer, and whose vNic index resolves, returns the conversion error and
\* leaves every attribute as it was.
C4_MalformedTagRejected ==
    (SetDone /\ Malformed(natRule.RuleTag) /\ RuleNetwork.err = NoError)
    => (err = FormatError(natRule.RuleTag) /\ d = dBefore)

\* a malformed tag on a rule whose network differs from the one in the attribute set
C4_Witness ==
    /\ SetDone
    /\ natRule.RuleTag = <<"a">>
    /\ RuleNetwork.err = NoError
    /\ RuleNetwork.name # dBefore.network_name
    /\ err.kind = "FormatError"

\* C5 as stated: for a network the gateway does not resolve, getDnatRule
\* returns a ResolutionError wrapping the lookup's NotFoundError, and no rule.
C5_ResolutionErrorWraps ==
    (fromGet /\ pc = "got" /\ CfgIndex.err # NoError)
    => (/\ err.kind = "ResolutionError"
        /\ err.cause.kind = "NotFoundError"
        /\ natRule = NilRule)

\* C5 amended: for a network the gateway does not resolve, getDnatRule
\* returns the lookup's error itself, unwrapped, and no rule.
C5_LookupErrorReturned ==
    (fromGet /\ pc = "got" /\ CfgIndex.err # NoError)
    => (err = CfgIndex.err /\ err.kind = "NotFoundError" /\ natRule = NilRule)

C5_Witness ==
    /\ fromGet /\ pc = "got"
    /\ cfg.network_name = "ghost"
    /\ err.kind = "NotFoundError"
    /\ natRule = NilRule

\* every attribute setDnatRuleData assigns holds the value taken from the rule
Populated ==
    /\ d.network_name = RuleNetwork.name
    /\ d.network_type = RuleNetwork.type
    /\ d.enabled = natRule.Enabled
    /\ d.logging_enabled = natRule.LoggingEnabled
    /\ d.description = natRule.Description
    /\ d.original_address = natRule.OriginalAddress
    /\ d.protocol = natRule.Protocol
    /\ d.icmp_type = natRule.IcmpType
    /\ d.original_port = natRule.OriginalPort
    /\ d.translated_address = natRule.TranslatedAddress
    /\ d.translated_port = natRule.TranslatedPort
    /\ d.rule_type = natRule.RuleType
    /\ natRule.RuleTag # <<>> => d.rule_tag = IntTag(Atoi(natRule.RuleTag))

\* C6: every call of setDnatRuleData returns an error or has populated every
\* attribute from the rule; a failed assignment makes the call return an error.
C6_AllOrNothing ==
    SetDone => (err # NoError \/ Populated)

\* C7: for a configuration whose network resolves and whose rule_tag is
\* unset, getDnatRule returns a rule with the index the lookup returned, the
\* scalar attributes unchanged and an empty RuleTag.
C7_InboundResult ==
    (fromGet /\ pc = "got" /\ CfgIndex.err = NoError /\ ~cfg.rule_tag.set)
    => (/\ err = NoError
        /\ natRule # NilRule
        /\ natRule.Vnic = CfgIndex.index
        /\ natRule.Enabled = cfg.enabled
        /\ natRule.LoggingEnabled = cfg.logging_enabled
        /\ natRule.Description = cfg.description
        /\ natRule.OriginalAddress = cfg.original_address
        /\ natRule.Protocol = cfg.protocol
        /\ natRule.IcmpType = cfg.icmp_type
        /\ natRule.OriginalPort = cfg.original_port
        /\ natRule.TranslatedAddress = cfg.translated_address
        /\ natRule.TranslatedPort = cfg.translated_port
        /\ natRule.RuleTag = <<>>)

\* the example of the specification: ext-net on vNic 1, tcp 80 -> 10.0.0.5:8080
C7_Witness ==
    /\ fromGet /\ pc = "got" /\ err = NoError
    /\ ~cfg.rule_tag.set
    /\ cfg.network_name = "ext-net" /\ cfg.network_type = "ext"
    /\ natRule.Vnic = 1
    /\ natRule.OriginalPort = "80" /\ natRule.TranslatedPort = "8080"
    /\ natRule.RuleTag = <<>>

\* C8: a call of setDnatRuleData that succeeds, on a rule whose vNic index
\* resolves and whose RuleTag is empty or an integer, has set the scalar
\* attributes and rule_type to the rule's values.
C8_OutboundResult ==
    (/\ SetDone /\ err = NoError
     /\ RuleNetwork.err = NoError
     /\ ~Malformed(natRule.RuleTag))
    => (/\ d.enabled = natRule.Enabled
        /\ d.logging_enabled = natRule.LoggingEnabled
        /\ d.description = natRule.Description
        /\ d.original_address = natRule.OriginalAddress
        /\ d.protocol = natRule.Protocol
        /\ d.icmp_type = natRule.IcmpType
        /\ d.original_port = natRule.OriginalPort
        /\ d.translated_address = natRule.TranslatedAddress
        /\ d.translated_port = natRule.TranslatedPort
        /\ d.rule_type = natRule.RuleType)

\* a rule read from the remote API replaces scalars and rule_type that differed
C8_Witness ==
    /\ SetDone /\ ~fromGet /\ err = NoError
    /\ natRule.RuleType = "internal_high"
    /\ dBefore.rule_type # natRule.RuleType
    /\ dBefore.original_port # natRule.OriginalPort
    /\ d.rule_type = "internal_high"
    /\ d.original_port = natRule.OriginalPort

\* C9: every rule getDnatRule returns has a RuleTag that is empty or parses
\* as a non-negative integer, for every integer rule_tag may hold.
C9_RuleTagNonNegative ==
    (fromGet /\ pc = "got" /\ err = NoError)
    => (\/ natRule.RuleTag = <<>>
        \/ (AtoiOk(natRule.RuleTag) /\ Atoi(natRule.RuleTag) >= 0))

\* C10: when the vNic index of the rule does not resolve, setDnatRuleData
\* returns the lookup's error and leaves every attribute as it was, also when
\* the RuleTag is malformed.
C10_UnboundIndex ==
    (SetDone /\ RuleNetwork.err # NoError)
    => (err = RuleNetwork.err /\ d = dBefore)

\* an unbound vNic index together with a malformed tag
C10_Witness ==
    /\ SetDone
    /\ RuleNetwork.err # NoError
    /\ Malformed(natRule.RuleTag)
    /\ err.kind = "NotFoundError"

====
